---- MODULE Spec2Model ----
(***************************************************************************)
(* Model of the chunked transcription pipeline of meeting_transcriber:     *)
(* src/app.py (the Flask handlers upload_file, record_audio and            *)
(* summarize_transcript with the functions they call) and                  *)
(* src/process_recording.py (the standalone script).                       *)
(*                                                                         *)
(* The disk is a function from paths to files.  A path is a record         *)
(* [base, ext]; a file records which audio it holds (the bytes the caller  *)
(* supplied, or a PCM rendering written by pydub of the time range         *)
(* [from, to) of the recording), its byte rate and its byte size.          *)
(* Times are milliseconds, sizes are bytes, texts are strings.             *)
(***************************************************************************)
EXTENDS Integers, Sequences, FiniteSets, TLC

\* ------------------------------------------------------------- bounds

\* A recording of the pipeline runs spans at most this many chunk durations.
MaxChunks == 3

\* split_audio_into_chunks called on its own: chunk_duration_minutes ranges
\* over 1..MaxChunkMinutes and the audio lasts at most MaxAudioMinutes.
MaxChunkMinutes == 5

MaxAudioMinutes == 12

\* ---------------------------------------------------------- constants

\* Python's None, as a value comparable with the records standing for objects.
None == [none |-> TRUE]

\* 25 * 1024 * 1024: the payload ceiling of the Whisper API.
HardLimit == 25 * 1024 * 1024

\* chunk_duration_minutes * 60 * 1000
ChunkDurationMs(chunk_duration_minutes) == chunk_duration_minutes * 60 * 1000

\* The chunk duration each caller passes to split_audio_into_chunks.
AppChunkMinutes == 10

\* Bytes per millisecond of 16-bit PCM: 16 kHz mono and 48 kHz stereo.
LowRate == (16000 * 1 * 2) \div 1000

HighRate == (48000 * 2 * 2) \div 1000

\* os.path.getsize of a WAV file pydub writes for `len` ms of audio: the
\* 44-byte header of the wave module, then the frames.
WavSize(len, rate) == 44 + len * rate

\* -------------------------------------------------------------- paths

\* audio_file_path.rsplit('.', 1)[0] + '.wav'
WavPath(p) == [base |-> p.base, ext |-> "wav"]

\* f"{audio_file_path.rsplit('.', 1)[0]}_chunk_{i//chunk_duration_ms}.wav"
ChunkPath(p, k) == [base |-> p.base \o <<"_chunk_", ToString(k)>>, ext |-> "wav"]

\* --------------------------------------------------------------- disk

Exists(fsys, p) == p \in DOMAIN fsys

\* open(p, 'wb') and write: creates the file or replaces its contents.
WriteFile(fsys, p, f) == [q \in (DOMAIN fsys) \cup {p} |-> IF q = p THEN f ELSE fsys[q]]

\* os.remove(p)
RemoveFile(fsys, p) == [q \in (DOMAIN fsys) \ {p} |-> fsys[q]]

\* The file pydub writes for audio[from:to] at `rate`.
PcmFile(from, to, rate) ==
    [kind |-> "pcm", from |-> from, to |-> to, rate |-> rate,
     size |-> WavSize(to - from, rate)]

VARIABLES
    entry,            \* the entry point: upload, record, cli, split, split_cli, summarize, summary_fn
    inp,              \* the recording handed in: its path, size, audio and whether it decodes
    chunk_minutes,    \* chunk_duration_minutes of the split in progress
    sr_available,     \* SPEECH_RECOGNITION_AVAILABLE
    fs,               \* the files on disk
    pc,               \* position of the run
    audio_len,        \* len(audio) inside split_audio_into_chunks
    split_i,          \* the loop variable i of split_audio_into_chunks
    chunks,           \* the list split_audio_into_chunks builds, then returns
    idx,              \* the loop index of the dispatch loop
    all_transcripts,  \* the list of chunk texts
    chunk_log,        \* per dispatched chunk: what transcribe_with_openai returned
    openai_calls,     \* payloads handed to client.audio.transcriptions.create
    google_calls,     \* paths handed to recognizer.recognize_google
    result,           \* what transcribe_long_audio / process_large_audio returned
    response,         \* what the handler answered
    summary           \* state of a summarization request

vars == <<entry, inp, chunk_minutes, sr_available, fs, pc, audio_len, split_i,
          chunks, idx, all_transcripts, chunk_log, openai_calls, google_calls,
          result, response, summary>>

runVars == <<idx, all_transcripts, chunk_log, openai_calls, google_calls,
             result, response>>

\* ------------------------------------------------------------- inputs

\* The recording as the caller supplied it.
OrigFile(size, duration, rate) ==
    [kind |-> "orig", from |-> 0, to |-> duration, rate |-> rate, size |-> size]

\* Audio lengths around the chunk boundaries of a chunk duration c.
Durations(c) ==
    {k * c + e : k \in 0..(MaxChunks - 1), e \in {0, 1, c}}

\* Audio lengths, in ms, for split_audio_into_chunks on its own: whole
\* minutes and one millisecond past them.
SplitDurations ==
    {m * 60 * 1000 + e : m \in 0..MaxAudioMinutes, e \in {0, 1}}

\* No summarization request is in progress.
NoSummary ==
    [data |-> None, text |-> "", type |-> "", prompt |-> None, llm_calls |-> 0,
     ret |-> None, response |-> None]

InitCommon ==
    /\ audio_len = 0
    /\ split_i = 0
    /\ chunks = <<>>
    /\ idx = 0
    /\ all_transcripts = <<>>
    /\ chunk_log = <<>>
    /\ openai_calls = <<>>
    /\ google_calls = <<>>
    /\ result = None
    /\ response = None

\* ---------------------------------------------- split_audio_into_chunks

\* AudioSegment.from_file(p) succeeds: the file is there and decodes.  What
\* pydub wrote always decodes.
Decodes(fsys, p) ==
    /\ Exists(fsys, p)
    /\ (fsys[p].kind = "orig" => inp.decodable)

\* The rate of the chunk files: app.py exports the audio as decoded,
\* process_recording.py resamples with -ar 16000 -ac 1.
ExportRate(f) == IF entry \in {"cli", "split_cli"} THEN LowRate ELSE f.rate

\* The slice taken without clamping it to the audio.
SliceEndBad(i, c, len) == i + c

\* audio[i:i + chunk_duration_ms]: pydub clamps the slice to the audio.
SliceEnd(i, c, len) == IF i + c < len THEN i + c ELSE len

\* The next value of range(0, len(audio), chunk_duration_ms) after i.
RangeNext(i, c) == i + c

\* Where the run goes once split_audio_into_chunks has returned.
AfterSplit == IF entry \in {"split", "split_cli"} THEN "done" ELSE "loop"

\* except Exception: return [audio_file_path]
SplitFails ==
    /\ chunks' = <<inp.path>>
    /\ pc' = AfterSplit

\* audio = AudioSegment.from_file(audio_file_path); chunks = []
SplitDecode ==
    /\ pc = "split"
    /\ \/ /\ Decodes(fs, inp.path)
          /\ audio_len' = fs[inp.path].to - fs[inp.path].from
          /\ split_i' = 0
          /\ chunks' = <<>>
          /\ pc' = "split_loop"
       \/ /\ ~Decodes(fs, inp.path)
          /\ SplitFails
          /\ UNCHANGED <<audio_len, split_i>>
    /\ UNCHANGED <<entry, inp, chunk_minutes, sr_available, fs, runVars, summary>>

\* One iteration of the for loop: slice, export, append.  The export can
\* fail (the disk is full), which ends the function in its except branch.
SplitExport ==
    /\ pc = "split_loop"
    /\ split_i < audio_len
    /\ LET c == ChunkDurationMs(chunk_minutes)
           src == fs[inp.path]
           chunk == PcmFile(src.from + split_i,
                            src.from + SliceEnd(split_i, c, audio_len),
                            ExportRate(src))
           chunk_path == ChunkPath(inp.path, split_i \div c)
       IN  \/ /\ fs' = WriteFile(fs, chunk_path, chunk)
              /\ chunks' = Append(chunks, chunk_path)
              /\ split_i' = RangeNext(split_i, c)
              /\ pc' = pc
           \/ /\ SplitFails
              /\ UNCHANGED <<fs, split_i>>
    /\ UNCHANGED <<entry, inp, chunk_minutes, sr_available, audio_len, runVars, summary>>

\* return chunks
SplitReturn ==
    /\ pc = "split_loop"
    /\ split_i >= audio_len
    /\ pc' = AfterSplit
    /\ UNCHANGED <<entry, inp, chunk_minutes, sr_available, fs, audio_len, split_i,
                   chunks, runVars, summary>>

\* split_audio_into_chunks called on its own, with every chunk duration
\* and audio length within the bounds.
InitSplit ==
    /\ entry \in {"split", "split_cli"}
    /\ chunk_minutes \in 1..MaxChunkMinutes
    /\ \E d \in SplitDurations, decodable \in BOOLEAN :
          inp = [path |-> [base |-> <<"rec">>, ext |-> "mp3"],
                 file |-> OrigFile(HardLimit + 1, d, HighRate),
                 decodable |-> decodable]
    /\ sr_available = FALSE
    /\ fs = WriteFile(<<>>, inp.path, inp.file)
    /\ pc = "split"
    /\ summary = NoSummary
    /\ InitCommon

NextSplit == SplitDecode \/ SplitExport \/ SplitReturn

SpecSplit == InitSplit /\ [][NextSplit]_vars

\* ------------------------------------------------ convert_audio_to_wav

\* convert_audio_to_wav(p): decode p and write its PCM rendering at
\* WavPath(p); on any exception hand back p itself.  export_ok is whether
\* audio.export succeeds.  Yields the disk afterwards and the path returned.
ConvertAudioToWav(fsys, p, export_ok) ==
    IF Decodes(fsys, p) /\ export_ok
    THEN [fs |-> WriteFile(fsys, WavPath(p),
                           PcmFile(fsys[p].from, fsys[p].to, fsys[p].rate)),
          path |-> WavPath(p)]
    ELSE [fs |-> fsys, path |-> p]

\* ---------------------------------------------- transcribe_with_openai

\* What the Whisper API can answer for a payload: it refuses one above its
\* limit; otherwise it fails, or hears nothing, or returns the speech.
ProviderOutcomes(size) ==
    IF size > HardLimit THEN {"error"} ELSE {"error", "silence", "speech"}

\* The text the provider returns for a payload.
TextFor(f, outcome) == IF outcome = "silence" THEN "" ELSE "t" \o ToString(f.from)

\* The size transcribe_with_openai compares with the limit:
\* os.path.getsize(audio_file_path), the file as found, before conversion.
CheckedSize(fsys, p) == fsys[p].size

\* transcribe_with_openai of app.py on path p.  Yields the disk afterwards,
\* the payloads handed to the API (none or one) and the return value: None,
\* or the API's transcript object, which has a text and no method.
TranscribeWithOpenai(fsys, p, export_ok, outcome) ==
    IF ~Exists(fsys, p) \/ CheckedSize(fsys, p) > HardLimit
    THEN [fs |-> fsys, sent |-> <<>>, ret |-> None]
    ELSE LET cv == ConvertAudioToWav(fsys, p, export_ok)
             payload == cv.fs[cv.path]
         IN  [fs |-> cv.fs,
              sent |-> <<[path |-> cv.path, size |-> payload.size]>>,
              ret |-> IF outcome \in ProviderOutcomes(payload.size) /\ outcome # "error"
                      THEN [text |-> TextFor(payload, outcome)]
                      ELSE None]

\* ---------------------------------------------- transcribe_with_google

\* sr.AudioFile opens WAV, AIFF and FLAC files only.
GoogleReadable(fsys, p) == Exists(fsys, p) /\ p.ext \in {"wav", "flac"}

\* transcribe_with_google on path p: the paths handed to recognize_google
\* (none or one) and the return value.
TranscribeWithGoogle(fsys, p, outcome) ==
    IF ~sr_available \/ ~GoogleReadable(fsys, p)
    THEN [sent |-> <<>>, ret |-> None]
    ELSE [sent |-> <<p>>,
          ret |-> IF outcome = "speech"
                  THEN [text |-> "g" \o ToString(fsys[p].from), method |-> "google"]
                  ELSE None]

\* ----------------------------------------------- transcribe_long_audio

\* The texts joined with nothing between them.
RECURSIVE JoinNoSep(_)
JoinNoSep(texts) ==
    IF texts = <<>> THEN "" ELSE Head(texts) \o JoinNoSep(Tail(texts))

\* " ".join(texts)
RECURSIVE Join(_)
Join(texts) ==
    IF texts = <<>> THEN ""
    ELSE IF Len(texts) = 1 THEN Head(texts)
    ELSE Head(texts) \o " " \o Join(Tail(texts))

\* file.save(file_path) / f.write(audio_bytes): the handler stores the
\* recording under uploads/.
SaveFile ==
    /\ pc = "save"
    /\ fs' = WriteFile(fs, inp.path, inp.file)
    /\ pc' = "tla"
    /\ UNCHANGED <<entry, inp, chunk_minutes, sr_available, audio_len, split_i,
                   chunks, runVars, summary>>

\* transcribe_long_audio up to the branch on the file size.
TranscribeLongAudioEntry ==
    /\ pc = "tla"
    /\ \/ /\ fs[inp.path].size <= HardLimit
          /\ pc' = "direct"
          /\ UNCHANGED chunk_minutes
       \/ /\ fs[inp.path].size > HardLimit
          /\ chunk_minutes' = AppChunkMinutes
          /\ pc' = "split"
    /\ UNCHANGED <<entry, inp, sr_available, fs, audio_len, split_i, chunks,
                   runVars, summary>>

\* return transcribe_with_openai(audio_file_path)
TranscribeDirect ==
    /\ pc = "direct"
    /\ \E export_ok \in BOOLEAN, outcome \in {"error", "silence", "speech"} :
          LET r == TranscribeWithOpenai(fs, inp.path, export_ok, outcome)
          IN  /\ fs' = r.fs
              /\ openai_calls' = openai_calls \o r.sent
              /\ result' = r.ret
    /\ pc' = "respond"
    /\ UNCHANGED <<entry, inp, chunk_minutes, sr_available, audio_len, split_i,
                   chunks, idx, all_transcripts, chunk_log, google_calls,
                   response, summary>>

\* What one pass of the dispatch loop leaves on disk: the chunk file is
\* removed if it is there.
CleanUp(fsys, chunk_path) ==
    IF Exists(fsys, chunk_path) THEN RemoveFile(fsys, chunk_path) ELSE fsys

\* all_transcripts after a pass that got the text t.
Collect(texts, t) == Append(texts, t)

\* One pass of the for loop of transcribe_long_audio: transcribe the chunk,
\* keep its text if there is one, remove the chunk file.
DispatchChunk ==
    /\ pc = "loop"
    /\ idx < Len(chunks)
    /\ \E export_ok \in BOOLEAN, outcome \in {"error", "silence", "speech"} :
          LET chunk_path == chunks[idx + 1]
              r == TranscribeWithOpenai(fs, chunk_path, export_ok, outcome)
          IN  /\ openai_calls' = openai_calls \o r.sent
              /\ all_transcripts' = IF r.ret # None
                                    THEN Collect(all_transcripts, r.ret.text)
                                    ELSE all_transcripts
              /\ chunk_log' = Append(chunk_log,
                                     [path |-> chunk_path, sent |-> r.sent, ret |-> r.ret])
              /\ fs' = CleanUp(r.fs, chunk_path)
    /\ idx' = idx + 1
    /\ UNCHANGED <<entry, inp, chunk_minutes, sr_available, pc, audio_len, split_i,
                   chunks, google_calls, result, response, summary>>

\* The value transcribe_long_audio returns after the loop.
Combined(texts) ==
    IF texts # <<>> THEN [text |-> Join(texts), method |-> "openai_chunked"] ELSE None

Aggregate ==
    /\ pc = "loop"
    /\ idx = Len(chunks)
    /\ result' = Combined(all_transcripts)
    /\ pc' = "respond"
    /\ UNCHANGED <<entry, inp, chunk_minutes, sr_available, fs, audio_len, split_i,
                   chunks, idx, all_transcripts, chunk_log, openai_calls,
                   google_calls, response, summary>>

\* ------------------------------------------------------------ handlers

Success(t) == [ok |-> TRUE, transcript |-> t.text, method |-> t.method]

Failure(msg) == [ok |-> FALSE, error |-> msg]

\* jsonify({... transcript.text, transcript.method}): reading an attribute
\* the object lacks raises, and the handler's except answers for it.
Jsonify(t) ==
    IF "method" \in DOMAIN t THEN Success(t) ELSE Failure("Processing error")

\* The fallback taken whatever transcribe_long_audio returned.
TriesGoogleAlways(res) == TRUE

\* upload_file falls back to Google exactly when transcribe_long_audio
\* returned nothing: `if transcript: ... else:`.
TriesGoogle(res) == res = None

\* upload_file after transcribe_long_audio returned: answer with the
\* transcript, or try Google on the whole file.  os.remove of a missing
\* file raises, and the handler's except answers for it.
UploadRespond ==
    /\ pc = "respond"
    /\ entry = "upload"
    /\ \E outcome \in {"error", "speech"} :
          IF ~TriesGoogle(result)
          THEN /\ google_calls' = google_calls
               /\ IF Exists(fs, inp.path)
                  THEN /\ fs' = RemoveFile(fs, inp.path)
                       /\ response' = Jsonify(result)
                  ELSE /\ fs' = fs
                       /\ response' = Failure("Processing error")
          ELSE LET g == TranscribeWithGoogle(fs, inp.path, outcome)
               IN  /\ google_calls' = google_calls \o g.sent
                   /\ IF Exists(fs, inp.path)
                      THEN /\ fs' = RemoveFile(fs, inp.path)
                           /\ response' = IF g.ret # None
                                          THEN Success(g.ret)
                                          ELSE Failure("Transcription failed. Please try again.")
                      ELSE /\ fs' = fs
                           /\ response' = Failure("Processing error")
    /\ pc' = "done"
    /\ UNCHANGED <<entry, inp, chunk_minutes, sr_available, audio_len, split_i,
                   chunks, idx, all_transcripts, chunk_log, openai_calls, result,
                   summary>>

\* record_audio after transcribe_long_audio returned.
RecordRespond ==
    /\ pc = "respond"
    /\ entry = "record"
    /\ IF result # None
       THEN IF Exists(fs, inp.path)
            THEN /\ fs' = RemoveFile(fs, inp.path)
                 /\ response' = Jsonify(result)
            ELSE /\ fs' = fs
                 /\ response' = Failure("Processing error")
       ELSE /\ fs' = fs
            /\ response' = Failure("Transcription failed")
    /\ pc' = "done"
    /\ UNCHANGED <<entry, inp, chunk_minutes, sr_available, audio_len, split_i,
                   chunks, idx, all_transcripts, chunk_log, openai_calls,
                   google_calls, result, summary>>

\* process_large_audio of process_recording.py.  The function body holds an
\* `import os` (line 119), which makes os a local name of the whole function:
\* its first statement, os.path.getsize, raises UnboundLocalError and the
\* function's except returns None.
ProcessLargeAudio ==
    /\ pc = "cli"
    /\ result' = None
    /\ pc' = "done"
    /\ UNCHANGED <<entry, inp, chunk_minutes, sr_available, fs, audio_len, split_i,
                   chunks, idx, all_transcripts, chunk_log, openai_calls,
                   google_calls, response, summary>>

\* ----------------------------------------------------------- the runs

\* The recordings of the pipeline runs: sizes on both sides of the limit,
\* lengths around the chunk boundaries, both byte rates, files that decode
\* and files that do not.
Init ==
    /\ entry \in {"upload", "record", "cli"}
    /\ chunk_minutes = AppChunkMinutes
    /\ \E ext \in {"mp3", "wav"}, size \in {HardLimit, HardLimit + 1},
          d \in Durations(ChunkDurationMs(AppChunkMinutes)),
          rate \in {LowRate, HighRate}, decodable \in BOOLEAN :
          /\ entry \in {"record", "cli"} => ext = "wav"
          /\ inp = [path |-> [base |-> <<"rec">>, ext |-> ext],
                    file |-> OrigFile(size, d, rate),
                    decodable |-> decodable]
    /\ sr_available \in BOOLEAN
    /\ entry = "cli" => ~sr_available
    /\ fs = IF entry = "cli" THEN WriteFile(<<>>, inp.path, inp.file) ELSE <<>>
    /\ pc = IF entry = "cli" THEN "cli" ELSE "save"
    /\ summary = NoSummary
    /\ InitCommon

Next ==
    \/ SaveFile
    \/ TranscribeLongAudioEntry
    \/ TranscribeDirect
    \/ SplitDecode
    \/ SplitExport
    \/ SplitReturn
    \/ DispatchChunk
    \/ Aggregate
    \/ UploadRespond
    \/ RecordRespond
    \/ ProcessLargeAudio

Spec == Init /\ [][Next]_vars

\* ------------------------------------------------------- summarization

\* The instruction template generate_summary picks for a summary_type.
TemplateOf(summary_type) ==
    IF summary_type \in {"key_points", "executive", "detailed"}
    THEN summary_type
    ELSE "default"

\* The guard that rejects a missing key only.
NoTranscriptKeyOnly(data) == "transcript" \notin DOMAIN data

\* not data.get('transcript'): the key is missing or the text is empty.
NoTranscript(data) == "transcript" \notin DOMAIN data \/ data.transcript = ""

\* data.get('summary_type', 'key_points')
SummaryTypeOf(data) ==
    IF "summary_type" \in DOMAIN data THEN data.summary_type ELSE "key_points"

\* The texts a summarization request carries.
TranscriptTexts == {"", "t0", "t0 t600000"}

SummaryTypes == {"key_points", "executive", "detailed", "generic"}

\* The JSON bodies posted to /summarize.
SummaryRequests ==
    [transcript : TranscriptTexts, summary_type : SummaryTypes]
    \cup [transcript : TranscriptTexts]
    \cup [summary_type : SummaryTypes]

\* summarize_transcript up to the call of generate_summary: an empty or
\* missing transcript is answered with an error.
SummarizeHandlerGuard(data) ==
    IF NoTranscript(data) THEN "reject" ELSE "generate"

SummarizeTranscript ==
    /\ pc = "summarize"
    /\ IF SummarizeHandlerGuard(summary.data) = "reject"
       THEN /\ summary' = [summary EXCEPT !.response = Failure("No transcript provided")]
            /\ pc' = "done"
       ELSE /\ summary' = [summary EXCEPT !.text = summary.data.transcript,
                                          !.type = SummaryTypeOf(summary.data)]
            /\ pc' = "generate"
    /\ UNCHANGED <<entry, inp, chunk_minutes, sr_available, fs, audio_len, split_i,
                   chunks, runVars>>

\* generate_summary: build the prompt of the style around the transcript,
\* call client.chat.completions.create, return the content, or None when
\* the call raises.  There is no test of the transcript on the way.
GenerateSummary ==
    /\ pc = "generate"
    /\ \E outcome \in {"error", "empty", "content"} :
          summary' = [summary EXCEPT
              !.prompt = [template |-> TemplateOf(summary.type),
                          transcript |-> summary.text],
              !.llm_calls = summary.llm_calls + 1,
              !.ret = IF outcome = "error" THEN None
                      ELSE [content |-> IF outcome = "empty" THEN ""
                                        ELSE "summary of " \o summary.text]]
    /\ pc' = IF entry = "summarize" THEN "summarize_respond" ELSE "done"
    /\ UNCHANGED <<entry, inp, chunk_minutes, sr_available, fs, audio_len, split_i,
                   chunks, runVars>>

\* summarize_transcript after generate_summary returned: `if summary:`.
SummarizeRespond ==
    /\ pc = "summarize_respond"
    /\ summary' = [summary EXCEPT !.response =
          IF summary.ret # None /\ summary.ret.content # ""
          THEN [ok |-> TRUE, summary |-> summary.ret.content,
                summary_type |-> summary.type]
          ELSE Failure("Failed to generate summary")]
    /\ pc' = "done"
    /\ UNCHANGED <<entry, inp, chunk_minutes, sr_available, fs, audio_len, split_i,
                   chunks, runVars>>

\* A request to /summarize, or generate_summary called on its own.
InitSummary ==
    /\ entry \in {"summarize", "summary_fn"}
    /\ \/ /\ entry = "summarize"
          /\ \E data \in SummaryRequests : summary = [NoSummary EXCEPT !.data = data]
          /\ pc = "summarize"
       \/ /\ entry = "summary_fn"
          /\ \E t \in TranscriptTexts, ty \in SummaryTypes :
                summary = [NoSummary EXCEPT !.text = t, !.type = ty]
          /\ pc = "generate"
    /\ chunk_minutes = AppChunkMinutes
    /\ inp = [path |-> [base |-> <<"rec">>, ext |-> "wav"],
              file |-> OrigFile(HardLimit, 0, LowRate),
              decodable |-> TRUE]
    /\ sr_available = FALSE
    /\ fs = <<>>
    /\ InitCommon

NextSummary == SummarizeTranscript \/ GenerateSummary \/ SummarizeRespond

SpecSummary == InitSummary /\ [][NextSummary]_vars

\* ============================================================== claims

\* The run went through the chunked branch of transcribe_long_audio.
ChunkedRun ==
    /\ entry \in {"upload", "record"}
    /\ pc \in {"loop", "respond", "done"}
    /\ inp.file.size > HardLimit

\* The handler has answered.
Answered == entry \in {"upload", "record"} /\ pc = "done"

\* transcribe_long_audio has returned.
Returned == entry \in {"upload", "record"} /\ pc \in {"respond", "done"}

\* split_audio_into_chunks ended in its except branch.
PlanFailed == pc \in {"loop", "respond", "done"} /\ chunks = <<inp.path>>

\* Chunk k (from 1) of the dispatch loop was handed to the primary provider,
\* which failed on it.
PrimaryFailed(k) == chunk_log[k].sent # <<>> /\ chunk_log[k].ret = None

\* Chunk k ended without a text.
ChunkFailed(k) == chunk_log[k].ret = None

InSeq(x, seq) == \E j \in 1..Len(seq) : seq[j] = x

\* The number of chunks among the first k that have a text.
RECURSIVE SuccessCount(_)
SuccessCount(k) ==
    IF k = 0 THEN 0
    ELSE SuccessCount(k - 1) + (IF ChunkFailed(k) THEN 0 ELSE 1)

\* ------------------------------------------------------------------ C1
\* The secondary provider was given the audio of chunk k: the chunk file, or
\* the whole recording.
SecondaryTriedOn(k) ==
    InSeq(chunk_log[k].path, google_calls) \/ InSeq(inp.path, google_calls)

FailedChunkSet(res) == IF "failed" \in DOMAIN res THEN res.failed ELSE {}

\* C2, as claimed: when the run has returned, the index of every chunk
\* whose transcription failed is in the failed-chunk set of the result.
C2_FailedChunksReported ==
    Returned /\ ChunkedRun =>
        \A k \in 1..Len(chunk_log) :
            ChunkFailed(k) => (k - 1) \in FailedChunkSet(result)

\* ------------------------------------------------------------------ C3
\* C3, as claimed: no payload handed to the primary provider exceeds the
\* hard limit of 25 MB.
C3_NoOversizePayload ==
    \A k \in 1..Len(openai_calls) : openai_calls[k].size <= HardLimit

\* ------------------------------------------------------------------ C4
\* C4, as claimed: once the planning step of a run has failed, no chunk is
\* dispatched and no transcription provider is called in that run, and no
\* run goes back from dispatching or aggregating to planning.
C4_PlanFailureIsTerminal ==
    [][ /\ PlanFailed =>
              /\ chunk_log' = chunk_log
              /\ openai_calls' = openai_calls
              /\ google_calls' = google_calls
        /\ pc \in {"loop", "respond", "done"} =>
              pc' \notin {"save", "tla", "split", "split_loop"} ]_vars

\* ------------------------------------------------------------------ C5
\* C5, as claimed: when transcribe_long_audio returns, the recording is
\* still on disk with the contents it was saved with.
C5_RecordingUntouched ==
    entry \in {"upload", "record"} /\ pc = "respond" =>
        Exists(fs, inp.path) /\ fs[inp.path] = inp.file

\* ------------------------------------------------------------------ C6
\* C6, as claimed: when the run has returned, no chunk file the splitter
\* created is left on disk.
C6_ChunkFilesRemoved ==
    Returned => \A p \in DOMAIN fs : p.base = inp.path.base

\* ------------------------------------------------------------------ C7
\* C7, as claimed: when the handler has answered, no WAV file that
\* convert_audio_to_wav wrote beside the input is left on disk.
C7_WavArtifactReleased ==
    entry \in {"upload", "record"} /\ pc = "done" /\ WavPath(inp.path) # inp.path =>
        ~Exists(fs, WavPath(inp.path))

\* ------------------------------------------------------------------ C8
\* ceil(d / c) for d >= 0, c > 0.
CeilDiv(d, c) == (d + c - 1) \div c

Min(a, b) == IF a < b THEN a ELSE b

\* split_audio_into_chunks, called on its own, has returned from its try
\* branch.
SplitSucceeded ==
    /\ entry \in {"split", "split_cli"}
    /\ pc = "done"
    /\ chunks # <<inp.path>>

\* C8: a successful split of an audio of d ms with chunk duration c ms
\* returns exactly ceil(d / c) chunk files (none when d = 0), named by the
\* indices 0..n-1 in order, the file of index k holding [k*c, min((k+1)*c, d)):
\* the chunks are non-empty, each starts where the one before ends, the first
\* at 0 and the last ends at d.  12 minutes at 5 minutes gives 5, 5 and 2
\* minutes; 5 minutes gives one chunk of 5 minutes.
C8_SplitCoversExactlyOnce ==
    SplitSucceeded =>
        LET d == inp.file.to
            c == ChunkDurationMs(chunk_minutes)
            n == Len(chunks)
            len(k) == fs[chunks[k]].to - fs[chunks[k]].from
        IN  /\ n = CeilDiv(d, c)
            /\ \A k \in 1..n :
                  /\ chunks[k] = ChunkPath(inp.path, k - 1)
                  /\ Exists(fs, chunks[k])
                  /\ fs[chunks[k]].from = (k - 1) * c
                  /\ fs[chunks[k]].to = Min(k * c, d)
                  /\ fs[chunks[k]].from < fs[chunks[k]].to
                  /\ k > 1 => fs[chunks[k]].from = fs[chunks[k - 1]].to
            /\ n > 0 => fs[chunks[1]].from = 0 /\ fs[chunks[n]].to = d
            /\ d = 12 * 60 * 1000 /\ chunk_minutes = 5 =>
                  n = 3 /\ len(1) = 5 * 60 * 1000 /\ len(2) = 5 * 60 * 1000
                        /\ len(3) = 2 * 60 * 1000
            /\ d = 5 * 60 * 1000 /\ chunk_minutes = 5 =>
                  n = 1 /\ len(1) = 5 * 60 * 1000

\* The split of 12 minutes at 5 minutes has returned its three chunks.
C8_Witness ==
    /\ SplitSucceeded
    /\ inp.file.to = 12 * 60 * 1000
    /\ chunk_minutes = 5
    /\ Len(chunks) = 3
    /\ fs[chunks[3]].to - fs[chunks[3]].from = 2 * 60 * 1000

\* ------------------------------------------------------------------ C9
\* The text of the first k chunks of the dispatch loop, taken in the order
\* of the chunk index: the texts of the chunks that have one, a single space
\* between neighbours.
RECURSIVE TextUpTo(_)
TextUpTo(k) ==
    IF k = 0 THEN ""
    ELSE IF ChunkFailed(k) THEN TextUpTo(k - 1)
    ELSE IF SuccessCount(k - 1) = 0 THEN chunk_log[k].ret.text
    ELSE TextUpTo(k - 1) \o " " \o chunk_log[k].ret.text

\* C9: when a chunked run has returned and at least one chunk has a text,
\* the run returns a transcript, not an error, whose text is exactly the
\* texts of the successful chunks in ascending chunk index joined by one
\* space, the failed chunks skipped; each chunk's text is the provider's
\* text for that chunk's time range; and the handler answers with that text.
C9_TextInChunkOrder ==
    Returned /\ ChunkedRun =>
        LET n == Len(chunk_log)
        IN  /\ n = Len(chunks)
            /\ \A k \in 1..n :
                  /\ chunk_log[k].path = chunks[k]
                  /\ ~PlanFailed => chunks[k] = ChunkPath(inp.path, k - 1)
                  /\ ~ChunkFailed(k) =>
                        chunk_log[k].ret.text \in
                            {"", "t" \o ToString((k - 1) * ChunkDurationMs(chunk_minutes))}
            /\ SuccessCount(n) > 0 =>
                  /\ result # None
                  /\ result.text = TextUpTo(n)
                  /\ pc = "done" => response.ok /\ response.transcript = TextUpTo(n)

\* A run of three chunks has been answered in which only the middle chunk
\* failed: the transcript is the first and the third text.
C9_Witness ==
    /\ Answered /\ ChunkedRun
    /\ Len(chunk_log) = 3
    /\ ~ChunkFailed(1) /\ ChunkFailed(2) /\ ~ChunkFailed(3)
    /\ result # None
    /\ result.text = "t0 t1200000"
    /\ response.ok

\* ----------------------------------------------------------------- C10
\* The request to /summarize carries no transcript text, or an empty one.
EmptyRequest ==
    /\ entry = "summarize"
    /\ \/ "transcript" \notin DOMAIN summary.data
       \/ summary.data.transcript = ""

\* The summarization was given an empty transcript text.
EmptyTranscriptGiven ==
    \/ entry = "summarize" /\ "transcript" \in DOMAIN summary.data
                           /\ summary.data.transcript = ""
    \/ entry = "summary_fn" /\ summary.text = ""

\* C10, as claimed: given an empty transcript, generate_summary and the
\* /summarize handler end with an error result and without a call of
\* client.chat.completions.create.
C10_Original ==
    (entry \in {"summarize", "summary_fn"} /\ pc = "done" /\ EmptyTranscriptGiven) =>
        /\ summary.llm_calls = 0
        /\ summary.ret = None

\* C10, amended: the /summarize handler, given an empty or missing
\* transcript, answers the error "No transcript provided" for every style
\* without calling generate_summary or client.chat.completions.create.
\* generate_summary itself does not test the transcript: called with an
\* empty text it builds the prompt of the style and calls the client once.
C10_HandlerRejectsEmpty ==
    /\ EmptyRequest =>
          /\ summary.llm_calls = 0
          /\ summary.prompt = None
          /\ pc \in {"summarize", "done"}
          /\ pc = "done" => summary.response = Failure("No transcript provided")
    /\ (entry = "summary_fn" /\ pc = "done") =>
          /\ summary.llm_calls = 1
          /\ summary.prompt = [template |-> TemplateOf(summary.type),
                               transcript |-> summary.text]

\* A /summarize request with an empty transcript and the executive style has
\* been answered.
C10_Witness ==
    /\ entry = "summarize" /\ pc = "done"
    /\ "transcript" \in DOMAIN summary.data
    /\ summary.data.transcript = ""
    /\ SummaryTypeOf(summary.data) = "executive"
    /\ ~summary.response.ok

\* ----------------------------------------------------------------- C11
\* The transcript object has a method attribute.
HasMethod(t) == "method" \in DOMAIN t

\* C11, as claimed: whenever transcribe_long_audio has returned a
\* transcript to upload_file or record_audio (the direct single-call path
\* or the chunked path), the object carries a method, and the handler
\* answers success with the transcript's text and method; an answer after
\* the Google fallback carries the method google.
C11_SuccessCarriesMethod ==
    /\ Returned /\ result # None =>
          /\ HasMethod(result)
          /\ pc = "done" =>
                /\ response.ok
                /\ response.transcript = result.text
                /\ response.method = result.method
    /\ Answered /\ result = None /\ response.ok => response.method = "google"

====
